---- MODULE Spec2Model ----
(***************************************************************************)
(* The agent orchestrator of the AI super app: AgentManager and the agent  *)
(* contract it drives (BaseAgent, FoodieAgent, RideNowAgent, AskMeAgent).  *)
(*                                                                         *)
(* A turn (AgentManager.processMessage) is an async function.  It runs     *)
(* atomically between its suspension points, which are the calls that      *)
(* wait for the external completion service:                               *)
(*    - the classification request of determineAgent,                      *)
(*    - the chosen agent's processMessage,                                 *)
(*    - the target agent's handleHandoff.                                  *)
(* Each action below is one such atomic stretch of the handler.  Several   *)
(* turns can be suspended at once (one per slot), as several HTTP          *)
(* requests can be in flight in the Node.js process.                       *)
(*                                                                         *)
(* A conversation context is a JavaScript object: the store (a Map) and    *)
(* the local variable `context` of a turn hold references to it.  heap     *)
(* maps object identities to their fields; a mutation through a reference  *)
(* is seen by every holder of that reference.                              *)
(***************************************************************************)
EXTENDS Integers, Sequences, FiniteSets, TLC

\* ---------------------------------------------------------------- bounds
MaxTurns == 2      \* turns accepted in one behaviour, one after the other
MaxOverlap == 3    \* turns accepted in one behaviour when they may overlap

\* ------------------------------------------------------------- universe
Users == {"u1", "u2"}
Slots == {1, 2}    \* requests that can be in flight together
ObjIds == 1 .. (Cardinality(Users) + Cardinality(Slots))

Null == "null"     \* JavaScript null / undefined
NoObj == 0         \* Map.get(userId) found nothing

\* The roster built by AgentManager.initialize.
AgentIds == {"foodie", "ridenow", "travelbuddy", "shopsmart", "grocer", "askme"}

\* Agents whose class is in the source tree.
KnownAgents == {"foodie", "ridenow", "askme"}

\* An identifier that names no agent of the roster.
Unregistered == "concierge"

\* Inbound messages, each given by the words it contains.
Messages == {"pizza", "taxi", "hello"}

\* The message POST /handoff makes up for a target agent, chat.js line 185.
HandoffMessage(targetAgent) == "hand me over to " \o targetAgent

\* Everything processMessage can be given as the message.
Inbound == Messages \cup {HandoffMessage(a) : a \in AgentIds}

\* The keywords a message contains (String.includes finds them inside
\* longer words: 'food' in 'foodie', 'ride' in 'ridenow', 'travel' in
\* 'travelbuddy').
Words(message) ==
  CASE message = "pizza" -> {"pizza"}
    [] message = "taxi"  -> {"taxi"}
    [] message = HandoffMessage("foodie") -> {"food"}
    [] message = HandoffMessage("ridenow") -> {"ride"}
    [] message = HandoffMessage("travelbuddy") -> {"travel"}
    [] OTHER             -> {"hello"}

foodKeywords ==
  {"food", "order", "restaurant", "eat", "hungry", "delivery", "menu",
   "cuisine", "dish", "meal", "breakfast", "lunch", "dinner", "snack",
   "pizza", "burger", "biryani", "curry", "chinese", "italian"}

rideKeywords ==
  {"cab", "taxi", "ride", "book", "uber", "ola", "auto", "rickshaw",
   "transport", "travel", "pickup", "drop", "fare", "driver",
   "airport", "station", "go to", "take me to"}

\* Time.  Date.now() is in milliseconds.  The instants at which something
\* happens: a context can be idle for exactly 24 hours and for more.
DayMs == 24 * 60 * 60 * 1000
Instants == {0, DayMs, DayMs + 1}

VARIABLES
  isInitialized,        \* AgentManager.isInitialized
  agents,               \* keys of AgentManager.agents
  conversationContext,  \* AgentManager.conversationContext: userId -> object
  heap,                 \* the context objects
  turns,                \* the suspended processMessage calls, one per slot
  now,                  \* Date.now()
  accepted,             \* number of turns accepted so far
  ret,                  \* what the call that has just returned gave its caller
  destroyed,            \* users whose stored context was deleted (cleared or
                        \* swept) and who have had no turn accepted since
  orderStates           \* FoodieAgent.orderStates: key -> selectedItems, each
                        \* item tagged with the user whose turn put it there

vars == <<isInitialized, agents, conversationContext, heap, turns, now, accepted, ret,
          destroyed, orderStates>>

\* ------------------------------------------------------- context objects
FreeObj ==
  [currentAgent |-> Null, history |-> <<>>, handoffRequested |-> FALSE,
   handoffTarget |-> Null, handoffReason |-> Null, lastActivity |-> -1]

\* The object literal of processMessage, lines 540-545.
NewContext(t) ==
  [currentAgent |-> Null, history |-> <<>>, handoffRequested |-> FALSE,
   handoffTarget |-> Null, handoffReason |-> Null, lastActivity |-> t]

\* ------------------------------------------------------ agent responses
NoHandoff == [targetAgent |-> Null, autoHandoff |-> FALSE]

\* BaseAgent.createHandoff: the directive an agent attaches to a response.
createHandoff(targetAgent, autoHandoff) ==
  [targetAgent |-> targetAgent, autoHandoff |-> autoHandoff]

\* BaseAgent.formatResponse: message, actions, suggestions and a metadata
\* object with the keys agent and timestamp.
formatResponse(message) ==
  [thrown |-> Null, message |-> message, error |-> FALSE,
   metadata |-> {"agent", "timestamp"}, handoff |-> NoHandoff]

\* BaseAgent.handleError: {message, error: true}, no metadata.
BaseHandleError ==
  [thrown |-> Null, message |-> "apology", error |-> TRUE,
   metadata |-> {}, handoff |-> NoHandoff]

\* AskMeAgent.handleError: a formatted response without an error flag.
AskMeHandleError == formatResponse("askme apology")

\* agent.handleError, what the catch block of the agent's processMessage
\* returns: AskMeAgent overrides it, FoodieAgent and RideNowAgent inherit it.
handleError(agent) == IF agent = "askme" THEN AskMeHandleError ELSE BaseHandleError

\* A call that raises.
Throw(detail) ==
  [thrown |-> detail, message |-> Null, error |-> FALSE,
   metadata |-> {}, handoff |-> NoHandoff]

AgentErrors == {"agent failure", "agent timeout"}
HandoffTargets == {"askme", "travelbuddy", Unregistered}

\* Responses of an agent whose class is not in the source tree, as the
\* agent contract allows them: a reply, a degraded reply, a reply with a
\* handoff directive, or a failure.
ContractResponses ==
  {formatResponse("reply")}
    \cup {[formatResponse("apology") EXCEPT !.error = TRUE]}
    \cup {[formatResponse("reply") EXCEPT !.handoff = createHandoff(t, a)] :
            t \in HandoffTargets, a \in BOOLEAN}
    \cup {Throw(d) : d \in AgentErrors}

\* FoodieAgent keeps an order state per key of its orderStates map.
OrderKeys == Users \cup {"anonymous"}

\* `context.userId || 'anonymous'` (FoodieAgent line 26) and
\* `orderState.userId || 'anonymous'` (lines 101, 211): the key under which
\* an object's order state is read and written.
orderStateKey(object) ==
  IF "userId" \in DOMAIN object THEN object.userId ELSE "anonymous"

\* FoodieAgent line 27: the stored order state, or a fresh one with an empty
\* selectedItems.
selectedItems(states, context) == states[orderStateKey(context)]

\* handleAddToCart's and handleCheckout's answers.
AddedToCart == formatResponse("added to cart")
CartIsEmpty == formatResponse("cart is empty")
OrderSummary == formatResponse("order summary")
CartResponses == {AddedToCart, CartIsEmpty, OrderSummary}

\* handleCheckout, lines 223-229: what it answers for a given cart.
handleCheckout(items) == IF items = {} THEN CartIsEmpty ELSE OrderSummary

\* handleAddToCart, lines 199-211: the cart after the turn of `userId` put
\* an item, keyed by the order state's own userId field, which it has not.
handleAddToCart(states, context, userId) ==
  [states EXCEPT ![orderStateKey([stage |-> "initial"])] =
     selectedItems(states, context) \cup {userId}]

\* What agent.processMessage can resolve to.  FoodieAgent, RideNowAgent and
\* AskMeAgent wrap their whole body in try/catch, and none of their handlers
\* builds a handoff directive.
AgentProcessMessage(agent) ==
  IF agent \in KnownAgents
    THEN {formatResponse("reply"), handleError(agent)}
           \cup (IF agent = "foodie" THEN CartResponses ELSE {})
    ELSE ContractResponses

\* {message, actions, suggestions} of handleHandoff: no metadata.
Welcome ==
  [thrown |-> Null, message |-> "welcome", error |-> FALSE,
   metadata |-> {}, handoff |-> NoHandoff]

\* A welcome that carries a handoff directive of its own.
WelcomeAndHandoff(targetAgent, autoHandoff) ==
  [Welcome EXCEPT !.handoff = createHandoff(targetAgent, autoHandoff)]

\* What agent.handleHandoff can resolve to.  BaseAgent's and AskMeAgent's
\* build {message, actions, suggestions}; an agent whose class is not in the
\* source tree may add a handoff directive to it.
AgentHandleHandoff(agent) ==
  IF agent \in KnownAgents
    THEN {Welcome}
    ELSE {Welcome} \cup {Throw(d) : d \in AgentErrors}
           \cup {WelcomeAndHandoff(t, a) : t \in AgentIds, a \in BOOLEAN}

\* agent.canHandle(message): keyword gating of FoodieAgent and RideNowAgent,
\* constant true for AskMeAgent and for BaseAgent's default.
canHandle(agent, message) ==
  CASE agent = "foodie"  -> Words(message) \cap foodKeywords # {}
    [] agent = "ridenow" -> Words(message) \cap rideKeywords # {}
    [] OTHER -> TRUE

\* What the completion service can answer to a classification request.
ClassifierFailure == "<failure>"
ClassifierAnswers ==
  {"foodie", "ridenow", "travelbuddy", "askme", Unregistered, ClassifierFailure}

\* ----------------------------------------------------------------- turns
\* The locals of a suspended processMessage call: where it waits (pc), its
\* arguments, its `context` reference (ctx), agentType, and what the turn
\* has seen so far: whether it created the context (first), the context's
\* currentAgent, handoffRequested and handoffTarget as determineAgent read
\* them, whether canHandle was called, the classifier's answer (Null when
\* no request was issued) and the handoff directive of the agent's response.
IdleTurn ==
  [pc |-> "idle", id |-> 0, user |-> Null, message |-> Null, ctx |-> NoObj,
   first |-> FALSE, afterDestroy |-> FALSE, preAgent |-> Null, preHandoff |-> FALSE, preTarget |-> Null,
   askedCanHandle |-> FALSE, classified |-> Null, agentType |-> Null,
   handoff |-> NoHandoff, requests |-> 0, operations |-> 0]

NoRet == [op |-> "none"]

InFlight == {s \in Slots : turns[s].pc # "idle"}

\* Objects nothing refers to any more are garbage.
Collect(h, store, ts) ==
  [o \in ObjIds |->
     IF (\E u \in Users : store[u] = o) \/ (\E s \in Slots : ts[s].ctx = o)
       THEN h[o] ELSE FreeObj]

FreshObj == CHOOSE o \in ObjIds :
  /\ heap[o] = FreeObj
  /\ \A p \in ObjIds : heap[p] = FreeObj => o <= p

Init ==
  /\ isInitialized = FALSE
  /\ agents = {}
  /\ conversationContext = [u \in Users |-> NoObj]
  /\ heap = [o \in ObjIds |-> FreeObj]
  /\ turns = [s \in Slots |-> IdleTurn]
  /\ now = 0
  /\ accepted = 0
  /\ ret = NoRet
  /\ destroyed = {}
  /\ orderStates = [k \in OrderKeys |-> {}]

\* AgentManager.initialize, called at server start.
initialize ==
  /\ ~isInitialized
  /\ isInitialized' = TRUE
  /\ agents' = AgentIds
  /\ ret' = NoRet
  /\ UNCHANGED <<conversationContext, heap, turns, now, accepted, destroyed, orderStates>>

\* The passage of time.
Tick ==
  /\ \E t \in Instants : t > now /\ now' = t
  /\ ret' = NoRet
  /\ UNCHANGED <<isInitialized, agents, conversationContext, heap, turns, accepted, destroyed, orderStates>>


\* ------------------------------------------------------ AgentManager
\* Push with the entry put at the front (unshift for push).
PushFront(ctx, entry) == [ctx EXCEPT !.history = <<entry>> \o @]

\* history.push(entry) on a context.  An entry is {type, content, ...}; turn
\* is the turn that pushed it (its timestamp), and the content of a user
\* entry, written "message", is the inbound text of that turn.
Push(ctx, entry) == [ctx EXCEPT !.history = Append(@, entry)]

\* StickyAgent with the negation of handoffRequested dropped.
StickyAgentFlagInverted(ctx, message, roster) ==
  IF /\ ctx.currentAgent # Null
     /\ ctx.handoffRequested
     /\ ctx.currentAgent \in roster
     /\ canHandle(ctx.currentAgent, message)
    THEN ctx.currentAgent
    ELSE Null

\* determineAgent, lines 633-638: the current agent keeps the turn when it
\* is set, no handoff is pending, it is in the roster and it can handle the
\* message.  Null when the turn has to be classified.
StickyAgent(ctx, message, roster) ==
  IF /\ ctx.currentAgent # Null
     /\ ~ctx.handoffRequested
     /\ ctx.currentAgent \in roster
     /\ canHandle(ctx.currentAgent, message)
    THEN ctx.currentAgent
    ELSE Null

\* Whether determineAgent calls canHandle at all (lines 633-635).
AsksCanHandle(ctx, roster) ==
  /\ ctx.currentAgent # Null
  /\ ~ctx.handoffRequested
  /\ ctx.currentAgent \in roster

\* ClassifiedAgent without the check of lines 677-680.
ClassifiedAgentUnvalidated(answer, roster) ==
  IF answer = ClassifierFailure THEN "askme" ELSE answer

\* determineAgent, lines 674-686: the classifier's answer is kept when it
\* names an agent of the roster; anything else, and any failure of the
\* request, gives 'askme'.
ClassifiedAgent(answer, roster) ==
  IF answer = ClassifierFailure THEN "askme"
  ELSE IF answer \notin roster THEN "askme"
  ELSE answer

\* cleanupOldContexts with the comparison of line 753 made inclusive.
cleanupOldContextsInclusive(store, h, t) ==
  [u \in Users |->
     IF store[u] # NoObj /\ h[store[u]].lastActivity <= t - DayMs
       THEN NoObj ELSE store[u]]

\* cleanupOldContexts with an idle threshold of zero: every context whose
\* lastActivity is in the past goes.
cleanupOldContextsNoThreshold(store, h, t) ==
  [u \in Users |->
     IF store[u] # NoObj /\ h[store[u]].lastActivity < t
       THEN NoObj ELSE store[u]]

\* cleanupOldContexts: the store without the contexts idle for more than
\* 24 hours.
cleanupOldContexts(store, h, t) ==
  [u \in Users |->
     IF store[u] # NoObj /\ h[store[u]].lastActivity < t - DayMs
       THEN NoObj ELSE store[u]]

\* The users cleanupOldContexts logs as cleaned up, line 755.
Evicted(before, after) == {u \in Users : before[u] # NoObj /\ after[u] = NoObj}

\* The envelope of a turn that ended normally, lines 602-609.
Envelope(agentType, response) ==
  [agent |-> agentType, message |-> response.message, actions |-> "list",
   suggestions |-> "list",
   handoff |-> IF response.handoff = NoHandoff THEN Null ELSE "directive",
   metadata |-> response.metadata]

\* The envelope processHandoff returns, lines 727-734.
HandoffEnvelope(targetAgent, response) ==
  [agent |-> targetAgent, message |-> response.message, actions |-> "list",
   suggestions |-> "list", handoff |-> "true", metadata |-> response.metadata]

\* The envelope of the catch block, lines 617-623; the message is the one
\* AskMeAgent.handleError builds.
ErrorEnvelope(detail) ==
  [agent |-> "askme", message |-> AskMeHandleError.message, error |-> TRUE,
   originalError |-> detail]

NoEnvelope == [none |-> TRUE]

Returned(turn, envelope) ==
  [op |-> "processMessage", outcome |-> "returned", turn |-> turn,
   envelope |-> envelope, error |-> Null]

Caught(turn, detail) ==
  [op |-> "processMessage", outcome |-> "returned", turn |-> turn,
   envelope |-> ErrorEnvelope(detail), error |-> detail]

Rethrown(turn, detail) ==
  [op |-> "processMessage", outcome |-> "threw", turn |-> turn,
   envelope |-> NoEnvelope, error |-> detail]

\* The catch block of processMessage, lines 611-627: the reply of
\* askme.handleError in an error envelope, or the error itself when the
\* roster has no askme.  The context is neither changed nor saved.
Catch(turn, detail, roster) ==
  IF "askme" \in roster THEN Caught(turn, detail) ELSE Rethrown(turn, detail)

\* A turn leaves its slot; h and store are the heap and the store it leaves
\* behind.
Leave(s, h, store, result) ==
  LET ts == [turns EXCEPT ![s] = IdleTurn] IN
  /\ turns' = ts
  /\ conversationContext' = store
  /\ heap' = Collect(h, store, ts)
  /\ ret' = result

\* The call of agent.processMessage, lines 558-573, with agentType chosen:
\* the context switches to agentType, and the turn waits for the agent
\* unless the roster has no such agent.
InvokeAgent(s, turn, h, roster) ==
  LET o == turn.ctx
      h1 == [h EXCEPT ![o].currentAgent = turn.agentType]
  IN IF turn.agentType \in roster
       THEN /\ turns' = [turns EXCEPT ![s] = [turn EXCEPT !.pc = "agent",
                                                        !.operations = @ + 1]]
            /\ heap' = h1
            /\ conversationContext' = conversationContext
            /\ ret' = NoRet
       ELSE Leave(s, h1, conversationContext,
                  Catch(turn, "agent not found", roster))

\* processMessage(userId, message) up to its first suspension: lines
\* 533-556 and, inside determineAgent, lines 631-664.
processMessage(s, userId, message) ==
  /\ turns[s].pc = "idle"
  /\ \A p \in Slots : turns[p].pc = "idle" => s <= p
  /\ accepted' = accepted + 1
  /\ isInitialized' = TRUE
  /\ agents' = IF isInitialized THEN agents ELSE AgentIds
  /\ now' = now
  /\ destroyed' = destroyed \ {userId}
  /\ orderStates' = orderStates
  /\ userId \in Users /\ message \in Inbound
  /\ LET first == conversationContext[userId] = NoObj
         o == IF first THEN FreshObj ELSE conversationContext[userId]
         loaded == IF first THEN NewContext(now) ELSE heap[o]
         ctx == Push([loaded EXCEPT !.lastActivity = now],
                     [type |-> "user", turn |-> accepted + 1, content |-> "message"])
         sticky == StickyAgent(ctx, message, agents')
         turn == [pc |-> "classify", id |-> accepted + 1, user |-> userId,
                  message |-> message, ctx |-> o, first |-> first,
                  afterDestroy |-> userId \in destroyed,
                  preAgent |-> ctx.currentAgent,
                  preHandoff |-> ctx.handoffRequested,
                  preTarget |-> ctx.handoffTarget,
                  askedCanHandle |-> AsksCanHandle(ctx, agents'),
                  classified |-> Null, agentType |-> sticky,
                  handoff |-> NoHandoff,
                  requests |-> IF sticky # Null THEN 0 ELSE 1,
                  operations |-> 0]
         h == [heap EXCEPT ![o] = ctx]
     IN IF sticky # Null
          THEN InvokeAgent(s, turn, h, agents')
          ELSE /\ turns' = [turns EXCEPT ![s] = turn]
               /\ heap' = h
               /\ conversationContext' = conversationContext
               /\ ret' = NoRet

\* The completion service answers the classification request: the rest of
\* determineAgent (lines 674-686), then processMessage lines 558-573.
classifyReturn(s, answer) ==
  /\ turns[s].pc = "classify"
  /\ LET turn == [turns[s] EXCEPT !.classified = answer,
                                  !.agentType = ClassifiedAgent(answer, agents)]
     IN InvokeAgent(s, turn, heap, agents)
  /\ UNCHANGED <<isInitialized, agents, now, accepted, destroyed, orderStates>>


\* processHandoff up to its suspension, lines 689-713, entered from line 592
\* with the heap h the turn has produced so far.  It loads the stored
\* context of the user, clears the handoff flags, installs the target and
\* only then looks the target up in the roster.
processHandoff(s, turn, h) ==
  LET o == conversationContext[turn.user]
      targetAgent == turn.handoff.targetAgent
      h1 == [h EXCEPT ![o] = [@ EXCEPT !.handoffRequested = FALSE,
                                       !.handoffTarget = Null,
                                       !.handoffReason = Null,
                                       !.currentAgent = targetAgent]]
  IN IF o = NoObj
       THEN Leave(s, h, conversationContext,
                  Catch(turn, "no conversation context", agents))
     ELSE IF targetAgent \notin agents
       THEN Leave(s, h1, conversationContext,
                  Catch(turn, "target agent not found", agents))
     ELSE /\ turns' = [turns EXCEPT ![s] = [turn EXCEPT !.pc = "handoff", !.ctx = o,
                                                      !.operations = @ + 1]]
          /\ heap' = Collect(h1, conversationContext, turns')
          /\ conversationContext' = conversationContext
          /\ ret' = NoRet

\* The chosen agent's processMessage resolves: lines 573-609 of
\* processMessage, its catch block, and processHandoff when the response
\* asks for an immediate handoff.
agentReturn(s, response) ==
  /\ turns[s].pc = "agent"
  /\ response \in AgentProcessMessage(turns[s].agentType)
  /\ response \in {CartIsEmpty, OrderSummary} =>
       response = handleCheckout(selectedItems(orderStates, heap[turns[s].ctx]))
  /\ orderStates' = IF response = AddedToCart
                      THEN handleAddToCart(orderStates, heap[turns[s].ctx], turns[s].user)
                      ELSE orderStates
  /\ LET turn == [turns[s] EXCEPT !.handoff = response.handoff]
         o == turn.ctx
         replied == Push(heap[o], [type |-> "agent", turn |-> turn.id, content |-> response.message])
         recorded == IF response.handoff = NoHandoff
                       THEN replied
                       ELSE [replied EXCEPT
                               !.handoffRequested = TRUE,
                               !.handoffTarget = response.handoff.targetAgent,
                               !.handoffReason = "reason"]
         h == [heap EXCEPT ![o] = recorded]
         saved == [conversationContext EXCEPT ![turn.user] = o]
     IN IF response.thrown # Null
          THEN Leave(s, heap, conversationContext,
                     Catch(turn, response.thrown, agents))
        ELSE IF response.handoff.autoHandoff
          THEN processHandoff(s, turn, h)
        ELSE Leave(s, h, cleanupOldContexts(saved, h, now),
                   Returned(turn, Envelope(turn.agentType, response))
                     @@ [evicted |-> Evicted(saved, cleanupOldContexts(saved, h, now)),
                         cart |-> IF response \in CartResponses
                                    THEN selectedItems(orderStates', heap[o])
                                    ELSE {}])
  /\ destroyed' = IF "evicted" \in DOMAIN ret' THEN destroyed \cup ret'.evicted ELSE destroyed
  /\ UNCHANGED <<isInitialized, agents, now, accepted>>

\* handoffReturn that obeys an auto-handoff directive found in the response
\* of handleHandoff: the turn goes on to the handleHandoff of the next target.
handoffReturnFollowing(s, response) ==
  /\ turns[s].pc = "handoff"
  /\ response \in AgentHandleHandoff(turns[s].handoff.targetAgent)
  /\ LET turn == turns[s]
         o == turn.ctx
         h == [heap EXCEPT ![o] = Push(@, [type |-> "handoff", turn |-> turn.id, content |-> response.message])]
         saved == [conversationContext EXCEPT ![turn.user] = o]
     IN IF response.thrown # Null
          THEN Leave(s, heap, conversationContext,
                     Catch(turn, response.thrown, agents))
        ELSE IF response.handoff.autoHandoff /\ response.handoff.targetAgent \in agents
          THEN /\ turns' = [turns EXCEPT ![s] = [turn EXCEPT !.handoff = response.handoff,
                                                           !.operations = @ + 1]]
               /\ heap' = [h EXCEPT ![o].currentAgent = response.handoff.targetAgent]
               /\ conversationContext' = saved
               /\ ret' = NoRet
        ELSE Leave(s, h, saved,
                   Returned(turn, HandoffEnvelope(turn.handoff.targetAgent, response))
                     @@ [directive |-> response.handoff])
  /\ UNCHANGED <<isInitialized, agents, now, accepted, destroyed, orderStates>>

\* The target agent's handleHandoff resolves: lines 713-738 of
\* processHandoff and, when it raised, the catch block of processMessage.
handoffReturn(s, response) ==
  /\ turns[s].pc = "handoff"
  /\ response \in AgentHandleHandoff(turns[s].handoff.targetAgent)
  /\ LET turn == turns[s]
         o == turn.ctx
         h == [heap EXCEPT ![o] = Push(@, [type |-> "handoff", turn |-> turn.id, content |-> response.message])]
         saved == [conversationContext EXCEPT ![turn.user] = o]
     IN IF response.thrown # Null
          THEN Leave(s, heap, conversationContext,
                     Catch(turn, response.thrown, agents))
          ELSE Leave(s, h, saved,
                     Returned(turn, HandoffEnvelope(turn.handoff.targetAgent, response))
                       @@ [directive |-> response.handoff])
  /\ UNCHANGED <<isInitialized, agents, now, accepted, destroyed, orderStates>>

\* clearUserContext(userId): Map.delete.
clearUserContext(userId) ==
  /\ userId \in Users
  /\ LET store == [conversationContext EXCEPT ![userId] = NoObj] IN
       /\ conversationContext' = store
       /\ heap' = Collect(heap, store, turns)
  /\ ret' = NoRet
  /\ destroyed' = IF conversationContext[userId] # NoObj THEN destroyed \cup {userId} ELSE destroyed
  /\ UNCHANGED <<isInitialized, agents, turns, now, accepted, orderStates>>

\* getUserContext(userId): the stored context, or null.
NoContext == [found |-> FALSE]

\* getUserContext answering with a new context where none is stored.
getUserContextOrCreate(store, h, userId) ==
  IF store[userId] # NoObj
    THEN [found |-> TRUE, context |-> h[store[userId]]]
    ELSE [found |-> TRUE, context |-> NewContext(0)]

getUserContext(store, h, userId) ==
  IF store[userId] # NoObj
    THEN [found |-> TRUE, context |-> h[store[userId]]]
    ELSE NoContext

\* Turns are accepted one after the other: a request arrives when no other
\* is suspended.
Next ==
  \/ initialize
  \/ Tick
  \/ \E s \in Slots, u \in Users, m \in Messages :
       InFlight = {} /\ accepted < MaxTurns /\ processMessage(s, u, m)
  \/ \E s \in Slots, a \in ClassifierAnswers : classifyReturn(s, a)
  \/ \E s \in Slots, r \in ContractResponses \cup {BaseHandleError, AskMeHandleError} :
       agentReturn(s, r)
  \/ \E s \in Slots, r \in {Welcome} \cup {Throw(d) : d \in AgentErrors} : handoffReturn(s, r)
  \/ \E u \in Users : clearUserContext(u)

Spec == Init /\ [][Next]_vars

\* POST /handoff: the request becomes a turn whose message names the target.
handoffRequest(s, userId, targetAgent) ==
  processMessage(s, userId, HandoffMessage(targetAgent))

\* Conversations in which the user also asks for agents by POST /handoff.
HandoffRequests == {"foodie", "travelbuddy"}
HandoffTalk == {"pizza", "taxi"}

NextHandoff ==
  \/ initialize
  \/ Tick
  \/ \E s \in Slots, u \in Users, m \in HandoffTalk :
       InFlight = {} /\ accepted < MaxTurns /\ processMessage(s, u, m)
  \/ \E s \in Slots, u \in Users, a \in HandoffRequests :
       InFlight = {} /\ accepted < MaxTurns /\ handoffRequest(s, u, a)
  \/ \E s \in Slots, a \in ClassifierAnswers : classifyReturn(s, a)
  \/ \E s \in Slots, r \in ContractResponses \cup {BaseHandleError, AskMeHandleError} :
       agentReturn(s, r)
  \/ \E s \in Slots, r \in {Welcome} \cup {Throw(d) : d \in AgentErrors} : handoffReturn(s, r)
  \/ \E u \in Users : clearUserContext(u)

SpecHandoff == Init /\ [][NextHandoff]_vars

\* ------------------------------------------------------------- queries
\* getAvailableAgents(): the keys of the roster.
getAvailableAgents(roster) == roster

\* The property isActive of an agent object: BaseAgent's constructor sets it
\* to the boolean true, and no class defines a method of that name.
isActive(agent) == [value |-> TRUE, callable |-> FALSE]

TypeError == "agent.isActive is not a function"

\* `agent.isActive ? agent.isActive() : true`, line 769: a truthy property
\* is called.
Active(agent) ==
  IF isActive(agent).value
    THEN IF isActive(agent).callable
           THEN [thrown |-> Null, active |-> TRUE]
           ELSE [thrown |-> TypeError, active |-> Null]
    ELSE [thrown |-> Null, active |-> TRUE]

\* getAgentStatus(): an entry {initialized, active} for every agent of the
\* roster, unless building one of them raises.
getAgentStatus(roster) ==
  IF \E a \in roster : Active(a).thrown # Null
    THEN [thrown |-> TypeError]
    ELSE [thrown |-> Null,
          status |-> [a \in roster |-> [initialized |-> TRUE, active |-> Active(a).active]]]

\* GET /agents: getAvailableAgents, then getAgentStatus.
rosterQuery ==
  /\ ret' = IF getAgentStatus(agents).thrown # Null
              THEN [op |-> "roster", outcome |-> "threw",
                    error |-> getAgentStatus(agents).thrown]
              ELSE [op |-> "roster", outcome |-> "returned",
                    agents |-> getAvailableAgents(agents),
                    status |-> getAgentStatus(agents).status]
  /\ UNCHANGED <<isInitialized, agents, conversationContext, heap, turns, now, accepted,
                 destroyed, orderStates>>

\* GET /context: getUserContext(userId).
contextQuery(userId) ==
  /\ userId \in Users
  /\ ret' = [op |-> "getUserContext", outcome |-> "returned", user |-> userId,
             result |-> getUserContext(conversationContext, heap, userId)]
  /\ UNCHANGED <<isInitialized, agents, conversationContext, heap, turns, now, accepted,
                 destroyed, orderStates>>

\* Conversations during which the roster and the contexts are inspected.
QueryMessages == {"pizza"}
QueryAnswers == {"foodie", "travelbuddy"}

NextQueries ==
  \/ initialize
  \/ Tick
  \/ \E s \in Slots, u \in Users, m \in QueryMessages :
       InFlight = {} /\ accepted < MaxTurns /\ processMessage(s, u, m)
  \/ \E s \in Slots, a \in QueryAnswers : classifyReturn(s, a)
  \/ \E s \in Slots, r \in ContractResponses \cup {BaseHandleError, AskMeHandleError} :
       agentReturn(s, r)
  \/ \E s \in Slots, r \in {Welcome} \cup {Throw(d) : d \in AgentErrors} : handoffReturn(s, r)
  \/ \E u \in Users : clearUserContext(u)
  \/ rosterQuery
  \/ \E u \in Users : contextQuery(u)

SpecQueries == Init /\ [][NextQueries]_vars

\* Conversations with the food agent: every message is classified as food,
\* and the agent answers from its menu, its cart or its checkout.
OrderMessages == {"pizza"}
OrderAnswers == {"foodie"}

NextOrders ==
  \/ initialize
  \/ Tick
  \/ \E s \in Slots, u \in Users, m \in OrderMessages :
       InFlight = {} /\ accepted < MaxTurns /\ processMessage(s, u, m)
  \/ \E s \in Slots, a \in OrderAnswers : classifyReturn(s, a)
  \/ \E s \in Slots, r \in AgentProcessMessage("foodie") : agentReturn(s, r)
  \/ \E u \in Users : clearUserContext(u)

SpecOrders == Init /\ [][NextOrders]_vars

\* Conversations with two agents whose classes are not in the source tree
\* and which hand the user over to each other, in processMessage and in
\* handleHandoff.
RelayMessages == {"hello"}
RelayAgents == {"travelbuddy", "shopsmart"}
RelayResponses ==
  {formatResponse("reply")}
    \cup {[formatResponse("reply") EXCEPT !.handoff = createHandoff("travelbuddy", a)] :
            a \in BOOLEAN}
RelayWelcomes ==
  {Welcome} \cup {WelcomeAndHandoff(t, a) : t \in RelayAgents, a \in BOOLEAN}

NextRelay ==
  \/ initialize
  \/ Tick
  \/ \E s \in Slots, u \in Users, m \in RelayMessages :
       InFlight = {} /\ accepted < MaxTurns /\ processMessage(s, u, m)
  \/ \E s \in Slots, a \in RelayAgents : classifyReturn(s, a)
  \/ \E s \in Slots, r \in RelayResponses : agentReturn(s, r)
  \/ \E s \in Slots, r \in RelayWelcomes : handoffReturn(s, r)

SpecRelay == Init /\ [][NextRelay]_vars

\* What the process does without being asked: time passes and every awaited
\* call resolves.  No timer runs cleanupOldContexts, and no request has to
\* arrive.
Fairness ==
  /\ WF_vars(Tick)
  /\ WF_vars(\E s \in Slots, a \in ClassifierAnswers : classifyReturn(s, a))
  /\ WF_vars(\E s \in Slots, r \in ContractResponses \cup {BaseHandleError, AskMeHandleError} :
               agentReturn(s, r))
  /\ WF_vars(\E s \in Slots, r \in {Welcome} \cup {Throw(d) : d \in AgentErrors} :
               handoffReturn(s, r))

SpecFair == Spec /\ Fairness

\* Requests of one user that arrive while others of that user are still
\* suspended: nothing in processMessage waits for a turn of the same userId
\* to end.
OverlapUsers == {"u1"}
OverlapMessages == {"pizza", "hello"}

NextConcurrent ==
  \/ initialize
  \/ Tick
  \/ \E s \in Slots, u \in OverlapUsers, m \in OverlapMessages :
       accepted < MaxOverlap /\ processMessage(s, u, m)
  \/ \E s \in Slots, a \in ClassifierAnswers : classifyReturn(s, a)
  \/ \E s \in Slots, r \in ContractResponses \cup {BaseHandleError, AskMeHandleError} :
       agentReturn(s, r)
  \/ \E s \in Slots, r \in {Welcome} \cup {Throw(d) : d \in AgentErrors} : handoffReturn(s, r)
  \/ \E u \in OverlapUsers : clearUserContext(u)

SpecConcurrent == Init /\ [][NextConcurrent]_vars


\* ============================================ vocabulary of the claims
Stored(u) == conversationContext[u] # NoObj
Context(u) == heap[conversationContext[u]]
ReturnedTurn == ret.op = "processMessage"
EnvelopeFields == {"agent", "message", "actions", "suggestions", "handoff", "metadata"}

\* The turn found a registered current agent, no handoff requested, and the
\* agent can handle the message.
StickyTurn(t) ==
  /\ t.preAgent \in AgentIds
  /\ ~t.preHandoff
  /\ canHandle(t.preAgent, t.message)

\* The turn went to the agent it found, with no classification request.
KeptByCurrentAgent(t) ==
  /\ t.agentType = t.preAgent
  /\ t.classified = Null
  /\ t.pc # "classify"

\* The agent's response asked for an immediate handoff to a registered agent.
AutoHandoffTurn(t) ==
  /\ t.handoff.autoHandoff
  /\ t.handoff.targetAgent \in AgentIds

\* A classification request was issued and gave no agent of the roster.
FellBack(t) == t.classified # Null /\ t.classified \notin AgentIds

\* The place of an entry within its turn.
Rank(type) == CASE type = "user" -> 1 [] type = "agent" -> 2 [] OTHER -> 3

InOrder(history) ==
  \A i, j \in DOMAIN history :
    i < j =>
      \/ history[i].turn < history[j].turn
      \/ /\ history[i].turn = history[j].turn
         /\ Rank(history[i].type) < Rank(history[j].type)

IsPrefix(h1, h2) ==
  /\ Len(h1) <= Len(h2)
  /\ \A i \in DOMAIN h1 : h1[i] = h2[i]

\* A step keeps the history of every context that stays stored as a prefix.
AppendOnly ==
  \A u \in Users :
    Stored(u) /\ conversationContext'[u] # NoObj =>
      IsPrefix(Context(u).history, heap'[conversationContext'[u]].history)

\* The user entry of turn id is in the history and the entry after it is
\* the agent entry of the same turn.
EntriesTogether(history, id) ==
  \E i \in DOMAIN history :
    /\ history[i].type = "user" /\ history[i].turn = id
    /\ i + 1 \in DOMAIN history
    /\ history[i + 1].type = "agent" /\ history[i + 1].turn = id

\* What a turn that starts from a fresh context has seen: it created the
\* context, found no current agent and no handoff request, did not ask
\* canHandle, and was classified.
StartedFresh(t) ==
  /\ t.first
  /\ t.preAgent = Null
  /\ ~t.preHandoff
  /\ ~t.askedCanHandle
  /\ t.pc = "classify" \/ t.classified # Null

OnlyEntriesOf(history, id) == \A i \in DOMAIN history : history[i].turn = id

\* ================================================================ claims
\* C1  Sticky routing: a turn that finds currentAgent = A in the roster, no
\* handoff requested and A.canHandle(message) true is given to A, and no
\* classification request is issued in that turn.
StickyRouting ==
  /\ \A s \in InFlight : StickyTurn(turns[s]) => KeptByCurrentAgent(turns[s])
  /\ ReturnedTurn /\ StickyTurn(ret.turn) => KeptByCurrentAgent(ret.turn)

StickyRoutingWitness ==
  /\ ReturnedTurn
  /\ ret.turn.preAgent = "ridenow"
  /\ ret.turn.message = "taxi"
  /\ ret.turn.askedCanHandle
  /\ ret.turn.classified = Null
  /\ ret.envelope.agent = "ridenow"

\* C2  Auto-handoff: a turn whose agent response carries a directive with
\* autoHandoff = true and a registered target B returns an envelope with
\* agent = B and leaves the user's stored context with currentAgent = B and
\* handoffRequested = false, a user's first turn included.
AutoHandoffInstalls ==
  ReturnedTurn /\ AutoHandoffTurn(ret.turn) =>
    /\ ret.outcome = "returned"
    /\ ret.envelope.agent = ret.turn.handoff.targetAgent
    /\ Stored(ret.turn.user)
    /\ Context(ret.turn.user).currentAgent = ret.turn.handoff.targetAgent
    /\ ~Context(ret.turn.user).handoffRequested

\* C3  Deferred handoff: a turn whose response carries a directive with
\* autoHandoff = false answers as the original agent, and the next turn of
\* the user goes to the recorded target without canHandle and without a
\* classification request.
DeferredHandoffRoutes ==
  /\ ReturnedTurn /\ ret.outcome = "returned"
       /\ ret.turn.handoff # NoHandoff /\ ~ret.turn.handoff.autoHandoff
       => ret.envelope.agent = ret.turn.agentType
  /\ \A s \in InFlight :
       turns[s].preHandoff /\ turns[s].preTarget \in AgentIds =>
         /\ turns[s].agentType = turns[s].preTarget
         /\ ~turns[s].askedCanHandle
         /\ turns[s].classified = Null
         /\ turns[s].pc # "classify"

\* C4  Classification fallback: when the classification request fails or
\* answers with no agent of the roster, the turn goes to 'askme', runs
\* through askme.processMessage and returns an envelope with agent = 'askme'
\* that is not flagged as an error; nothing is thrown.
ClassificationFallback ==
  /\ \A s \in InFlight : FellBack(turns[s]) =>
       /\ turns[s].agentType = "askme"
       /\ turns[s].pc = "agent"
  /\ ReturnedTurn /\ FellBack(ret.turn) =>
       /\ ret.outcome = "returned"
       /\ ret.error = Null
       /\ ret.envelope \in {Envelope("askme", r) : r \in AgentProcessMessage("askme")}
       /\ "error" \notin DOMAIN ret.envelope

ClassificationFallbackWitness ==
  /\ ReturnedTurn
  /\ ret.turn.classified = Unregistered
  /\ ret.envelope.agent = "askme"
  /\ ret.turn.preAgent = "foodie"

\* C5  Every call of processMessage returns an envelope with the six fields
\* agent, message, actions, suggestions, handoff and metadata, and throws
\* nothing, whatever happened in the turn.
EnvelopeWellFormed ==
  ReturnedTurn =>
    /\ ret.outcome = "returned"
    /\ EnvelopeFields \subseteq DOMAIN ret.envelope

\* C6  Once a turn has returned, its inbound message is in the stored
\* history of the user, also on a first turn and on a turn that failed.
InboundMessageKept ==
  ReturnedTurn =>
    /\ Stored(ret.turn.user)
    /\ \E i \in DOMAIN Context(ret.turn.user).history :
         /\ Context(ret.turn.user).history[i].type = "user"
         /\ Context(ret.turn.user).history[i].turn = ret.turn.id

\* C7  When the agent's processMessage or handleHandoff failed, the stored
\* history of the user afterwards has an entry of that turn holding the
\* error reply given to the caller.
ErrorReplyKept ==
  ReturnedTurn /\ ret.error # Null /\ ret.outcome = "returned" =>
    /\ Stored(ret.turn.user)
    /\ \E i \in DOMAIN Context(ret.turn.user).history :
         /\ Context(ret.turn.user).history[i].type # "user"
         /\ Context(ret.turn.user).history[i].turn = ret.turn.id
         /\ Context(ret.turn.user).history[i].content = ret.envelope.message

\* C8  The currentAgent of every stored context is null or an agent of the
\* roster.
CurrentAgentRegistered ==
  \A u \in Users :
    Stored(u) => Context(u).currentAgent \in AgentIds \cup {Null}

\* C9  A handoffTarget that is set names an agent of the roster, other than
\* the currentAgent of the context when the directive was recorded.
HandoffTargetValid ==
  /\ \A u \in Users :
       Stored(u) /\ Context(u).handoffTarget # Null =>
         Context(u).handoffTarget \in AgentIds
  /\ ReturnedTurn /\ ret.outcome = "returned" /\ ret.turn.handoff # NoHandoff
       /\ ~ret.turn.handoff.autoHandoff
       => ret.turn.handoff.targetAgent # ret.turn.agentType

\* C10  With turns processed one after the other, a stored history lists
\* its entries in the order the turns were accepted, within a turn the user
\* entry, then the agent entry, then the handoff entry; and as long as a
\* context stays stored, a step only appends to its history.
HistoryInOrder ==
  /\ [](\A u \in Users : Stored(u) => InOrder(Context(u).history))
  /\ [][AppendOnly]_vars

HistoryInOrderWitness ==
  \E u \in Users :
    /\ Stored(u)
    /\ [n \in DOMAIN Context(u).history |->
          <<Context(u).history[n].type, Context(u).history[n].turn>>]
         = << <<"user", 1>>, <<"agent", 1>>, <<"user", 2>>, <<"agent", 2>>,
              <<"handoff", 2>> >>

\* C11  Turns of one user that are in flight together behave as if they had
\* run one after the other: a turn that returns normally leaves its user
\* entry directly followed by its agent entry in the stored history, and
\* no save takes an entry of another turn out of the stored history.
OverlapAsIfSerial ==
  /\ [](ReturnedTurn /\ ret.error = Null /\ Stored(ret.turn.user) =>
         EntriesTogether(Context(ret.turn.user).history, ret.turn.id))
  /\ [][AppendOnly]_vars

\* C12  Once the context of a user is cleared, getUserContext reports none
\* until a turn accepted after the clear saves a new one: a step after
\* which getUserContext finds a context where it found none before is the
\* return of a turn of that user that found nothing stored when it loaded,
\* and the context holds the entries of that turn only.
ClearedStaysCleared ==
  [][\A u \in Users :
       /\ getUserContext(conversationContext, heap, u) = NoContext
       /\ getUserContext(conversationContext', heap', u) # NoContext
       => /\ ret'.op = "processMessage"
          /\ ret'.turn.user = u
          /\ ret'.turn.first
          /\ \A i \in DOMAIN getUserContext(conversationContext', heap', u).context.history :
               getUserContext(conversationContext', heap', u).context.history[i].turn
                 = ret'.turn.id]_vars

\* C13  The sweep never evicts the context of a user while a turn of that
\* user is in flight: when the sweep at the end of a turn removes a stored
\* context, no turn that loaded this context is still suspended.
SweepSparesInFlight ==
  [][\A u \in Users :
       /\ Stored(u)
       /\ conversationContext'[u] = NoObj
       /\ ret'.op = "processMessage"
       => ~\E s \in Slots :
             /\ turns'[s].pc # "idle"
             /\ turns'[s].user = u
             /\ turns'[s].ctx = conversationContext[u]]_vars

\* C14  cleanupOldContexts with the 24 hour threshold removes exactly the
\* stored contexts with now - lastActivity > 24 h and leaves every other
\* context as it is; with no such context it removes nothing; run again at
\* the same instant it removes nothing more.  The sweep at the end of a
\* turn does just that to the store the turn has saved into.
SweepExact ==
  /\ [](\A t \in Instants :
          LET swept == cleanupOldContexts(conversationContext, heap, t) IN
          /\ \A u \in Users :
               swept[u] = IF Stored(u) /\ t - Context(u).lastActivity > DayMs
                            THEN NoObj ELSE conversationContext[u]
          /\ (\A u \in Users : Stored(u) => t - Context(u).lastActivity <= DayMs)
               => Evicted(conversationContext, swept) = {}
          /\ cleanupOldContexts(swept, heap, t) = swept)
  /\ [][ret'.op = "processMessage" /\ "evicted" \in DOMAIN ret' =>
         \A u \in Users :
           LET o == IF u = ret'.turn.user THEN ret'.turn.ctx ELSE conversationContext[u]
           IN /\ (u \in ret'.evicted) = (o # NoObj /\ now - heap[o].lastActivity > DayMs)
              /\ conversationContext'[u] = IF u \in ret'.evicted THEN NoObj ELSE o
              /\ u # ret'.turn.user /\ u \notin ret'.evicted /\ o # NoObj
                   => heap'[o] = heap[o]]_vars

SweepExactWitness ==
  /\ ReturnedTurn
  /\ "evicted" \in DOMAIN ret
  /\ ret.evicted = {"u2"}
  /\ ret.turn.user = "u1"
  /\ Stored("u1")
  /\ Context("u1").lastActivity = DayMs
  /\ now = DayMs + 1

\* C15  A stored context whose lastActivity is more than 24 hours old is
\* eventually evicted, whether or not another message arrives.
IdleEventuallyEvicted ==
  \A u \in Users :
    (Stored(u) /\ now - Context(u).lastActivity > DayMs) ~> ~Stored(u)

\* C16  The first turn of a user accepted after the user's context was
\* destroyed (cleared or swept) starts from a fresh context: no current
\* agent, so that the turn is classified and canHandle is not asked,
\* handoffRequested false, and a history with the entries of this turn only.
FreshAfterDestroy ==
  /\ \A s \in InFlight :
       turns[s].afterDestroy =>
         /\ StartedFresh(turns[s])
         /\ OnlyEntriesOf(heap[turns[s].ctx].history, turns[s].id)
  /\ ReturnedTurn /\ ret.turn.afterDestroy =>
       /\ StartedFresh(ret.turn)
       /\ Stored(ret.turn.user) =>
            OnlyEntriesOf(Context(ret.turn.user).history, ret.turn.id)

\* C17  An agent installed as currentAgent by a handoff directive is greeted
\* through handleHandoff, once, in place of processMessage: in the same
\* turn when the directive asks for an immediate handoff, and in the next
\* turn of the user when it was recorded for later.  handleHandoff is
\* invoked in no other turn.
HandoffGreetsOnce ==
  /\ \A s \in InFlight :
       /\ turns[s].pc = "handoff" => AutoHandoffTurn(turns[s]) \/ turns[s].preHandoff
       /\ turns[s].preHandoff /\ turns[s].preTarget \in AgentIds
            /\ turns[s].preTarget # turns[s].preAgent
            => turns[s].pc = "handoff"
  /\ ReturnedTurn /\ AutoHandoffTurn(ret.turn) /\ Stored(ret.turn.user)
       /\ Context(ret.turn.user).currentAgent = ret.turn.handoff.targetAgent
       /\ ret.turn.agentType # ret.turn.handoff.targetAgent
       => ret.turn.pc = "handoff"
  /\ ReturnedTurn /\ ret.turn.pc = "handoff" =>
       AutoHandoffTurn(ret.turn) \/ ret.turn.preHandoff

\* C18  A turn of a user with a stored context whose agent response carries
\* a handoff directive to an agent that is not in the roster is recovered
\* like a classification failure: nothing is thrown, the envelope is not
\* flagged as an error, and when the handoff is immediate the envelope is
\* that of 'askme'.
UnknownTargetRecovered ==
  ReturnedTurn /\ ~ret.turn.first /\ ret.turn.handoff # NoHandoff
    /\ ret.turn.handoff.targetAgent \notin AgentIds
    => /\ ret.outcome = "returned"
       /\ ret.error = Null
       /\ "error" \notin DOMAIN ret.envelope
       /\ ret.turn.handoff.autoHandoff => ret.envelope.agent = "askme"

\* C19  The envelope of a failed turn does not depend on the text of the
\* internal error: had the same turn failed with another error text, the
\* caller would have got the very same envelope.
FailureDetailHidden ==
  ReturnedTurn /\ ret.error # Null /\ ret.outcome = "returned" =>
    \A detail \in AgentErrors : Catch(ret.turn, detail, agents).envelope = ret.envelope

\* C20  The processMessage of foodie, ridenow and askme never throws: when
\* an internal step fails it returns a degraded response, and the metadata
\* of that response has error set.
DegradedFlagged ==
  ReturnedTurn /\ ret.turn.agentType \in KnownAgents /\ ret.turn.pc = "agent" =>
    /\ ret.error \notin AgentErrors
    /\ ret.outcome = "returned"
    /\ ret.envelope = Envelope(ret.turn.agentType, handleError(ret.turn.agentType))
         => "error" \in ret.envelope.metadata

\* C21  After a turn that ended without a failure the currentAgent of the
\* user's stored context is the agent of the envelope returned; on a first
\* turn without a handoff both are the agent the classification gave.
EnvelopeAgentIsCurrent ==
  ReturnedTurn /\ ret.error = Null /\ Stored(ret.turn.user) =>
    /\ Context(ret.turn.user).currentAgent = ret.envelope.agent
    /\ ret.turn.first /\ ret.turn.pc = "agent" =>
         /\ ret.turn.classified # Null
         /\ ret.envelope.agent = ClassifiedAgent(ret.turn.classified, agents)

\* C22  A POST /handoff request that names a registered agent T switches
\* the conversation to T, whichever agent had it before: when the turn made
\* of the request ended without a failure and was not classified, or was
\* classified to T, the envelope returned has agent = T and the stored
\* context has currentAgent = T.
HandoffRequestSwitches ==
  \A a \in AgentIds :
    ReturnedTurn /\ ret.turn.message = HandoffMessage(a)
      /\ ret.error = Null
      /\ ret.turn.classified \in {Null, a}
      => /\ ret.envelope.agent = a
         /\ Stored(ret.turn.user) => Context(ret.turn.user).currentAgent = a

\* C23  Once the roster is initialized, the roster query (getAvailableAgents
\* together with getAgentStatus) raises nothing and returns a status entry
\* for every registered agent.
RosterQueryAnswers ==
  ret.op = "roster" /\ isInitialized =>
    /\ ret.outcome = "returned"
    /\ ret.agents = AgentIds
    /\ DOMAIN ret.status = AgentIds

\* C24  getUserContext for a user with no stored context raises nothing,
\* returns null, and leaves the store as it was: no context is created.
AbsentContextIsNull ==
  [][ret'.op = "getUserContext" /\ ~Stored(ret'.user) =>
       /\ ret'.outcome = "returned"
       /\ ret'.result = NoContext
       /\ conversationContext' = conversationContext
       /\ heap' = heap]_vars

AbsentContextIsNullWitness ==
  /\ ret.op = "getUserContext"
  /\ ret.user = "u1"
  /\ ret.result = NoContext
  /\ ~Stored("u1")
  /\ Stored("u2")

LastActivityStamped ==
  [][\A s \in Slots :
       turns[s].pc # "idle" /\ turns'[s].pc = "idle" =>
         /\ conversationContext'[turns[s].user] # NoObj
         /\ heap'[conversationContext'[turns[s].user]].lastActivity
              >= heap[turns[s].ctx].lastActivity]_vars

\* The stored context of the user is with askme and no handoff is pending.
WithAskMe(u) ==
  /\ Stored(u)
  /\ Context(u).currentAgent = "askme"
  /\ ~Context(u).handoffRequested

\* C27  While a user's conversation is with askme and no handoff is pending,
\* every turn accepted for the user goes to askme with no classification
\* request, whatever the message; and the conversation stays with askme
\* until the context is cleared or evicted or a response of askme carries a
\* handoff directive.
AskMeKeepsConversation ==
  [][\A u \in Users :
       WithAskMe(u) =>
         /\ \A s \in Slots :
              turns[s].pc = "idle" /\ turns'[s].pc # "idle" /\ turns'[s].user = u =>
                /\ turns'[s].pc = "agent"
                /\ turns'[s].agentType = "askme"
                /\ turns'[s].classified = Null
         /\ \/ WithAskMe(u)'
            \/ ~Stored(u)'
            \/ \E s \in Slots :
                 /\ turns[s].pc = "agent" /\ turns[s].agentType = "askme"
                 /\ turns[s].user = u
                 /\ turns'[s].pc # "agent"
                 /\ Context(u)'.handoffRequested \/ Context(u)'.currentAgent # "askme"]_vars

\* The stored context of the user has a handoff requested.
HandoffPending(u) == Stored(u) /\ Context(u).handoffRequested

\* C28  While handoffRequested is true in a user's stored context, every turn
\* accepted for the user issues a classification request and canHandle is
\* not consulted; and the flag stays true until processHandoff runs for the
\* user or the context is destroyed.
HandoffFlagHeld ==
  [][\A u \in Users :
       HandoffPending(u) =>
         /\ \A s \in Slots :
              turns[s].pc = "idle" /\ turns'[s].pc # "idle" /\ turns'[s].user = u =>
                /\ turns'[s].pc = "classify"
                /\ ~turns'[s].askedCanHandle
         /\ \/ HandoffPending(u)'
            \/ ~Stored(u)'
            \/ \E s \in Slots :
                 /\ turns[s].pc = "agent" /\ turns[s].user = u
                 /\ \/ turns'[s].pc = "handoff"
                    \/ /\ ret'.op = "processMessage"
                       /\ ret'.turn.id = turns[s].id
                       /\ ret'.turn.handoff.autoHandoff]_vars

\* The turns that are under way or have just returned.
TurnsSeen ==
  {turns[s] : s \in InFlight} \cup (IF ReturnedTurn THEN {ret.turn} ELSE {})

\* C29  A turn issues at most one classification request and at most two
\* agent operations, a processMessage and a handleHandoff; when the response
\* of handleHandoff carries a handoff directive the turn ends there, with the
\* envelope of the agent that gave the welcome.
TurnBounded ==
  /\ \A t \in TurnsSeen : t.requests <= 1 /\ t.operations <= 2
  /\ ReturnedTurn /\ "directive" \in DOMAIN ret =>
       /\ \A s \in Slots : turns[s].id # ret.turn.id
       /\ ret.turn.operations = 2
       /\ ret.envelope.agent = ret.turn.handoff.targetAgent

\* shopsmart handed the user over to travelbuddy at once, travelbuddy's
\* welcome asked to hand the user back to shopsmart at once, and the turn
\* has ended.
TurnBoundedWitness ==
  /\ ReturnedTurn
  /\ "directive" \in DOMAIN ret
  /\ ret.turn.agentType = "shopsmart"
  /\ ret.turn.handoff = createHandoff("travelbuddy", TRUE)
  /\ ret.directive = createHandoff("shopsmart", TRUE)
  /\ ret.turn.requests = 1
  /\ ret.turn.operations = 2
  /\ InFlight = {}

\* The step is a step of a turn of user a.
TurnStep(a) ==
  \/ \E s \in Slots : turns'[s] # turns[s] /\ a \in {turns[s].user, turns'[s].user}
  \/ ret'.op = "processMessage" /\ ret' # ret /\ ret'.turn.user = a

\* C30  No step of a turn of user a creates or changes the stored context of
\* another user b; it deletes b's context only in the sweep that ends the
\* turn, and only when b's lastActivity is more than 24 hours old.  The
\* queries getUserContext and getAvailableAgents change no context.
OtherUsersUntouched ==
  [][/\ \A a, b \in Users :
          a # b /\ TurnStep(a) =>
            \/ getUserContext(conversationContext', heap', b)
                 = getUserContext(conversationContext, heap, b)
            \/ /\ Stored(b) /\ ~Stored(b)'
               /\ now - Context(b).lastActivity > DayMs
               /\ ret'.op = "processMessage" /\ ret'.turn.user = a
               /\ "evicted" \in DOMAIN ret' /\ b \in ret'.evicted
     /\ ret'.op \in {"roster", "getUserContext"} =>
          conversationContext' = conversationContext /\ heap' = heap]_vars

\* A turn of u1 has ended with its sweep while u2's context was exactly 24
\* hours idle: u2's context is still stored, as u2's own turn left it.
OtherUsersUntouchedWitness ==
  /\ ReturnedTurn /\ ret.turn.user = "u1" /\ ret.error = Null
  /\ "evicted" \in DOMAIN ret /\ ret.evicted = {}
  /\ Stored("u1") /\ Stored("u2")
  /\ Context("u2").lastActivity = 0
  /\ now = DayMs

====
